---- MODULE Spec2Model ----
(***************************************************************************)
(* A model of the dufs file handle (DufsFile) of go-http-vfs: a virtual    *)
(* cursor and a metadata cache over a stateless HTTP resource.  One handle *)
(* is driven sequentially against one remote path; the remote server is    *)
(* the dufs endpoint the handle talks to, modelled by what it stores at    *)
(* that path and by how it answers each request.                           *)
(***************************************************************************)
EXTENDS Integers, Sequences, FiniteSets, TLC

VARIABLES
    root,         \* the path of DufsVFS.Root, as url.Parse gives it
    name,         \* the virtual path the handle was opened with
    href,         \* DufsFile.Href: the path of the resource URL
    remote,       \* what the server holds at the handle's path
    other,        \* what the server holds at a second path
    index,        \* DufsFile.index, the cursor
    cachedState,  \* DufsFile.cachedState, the cached fs.FileInfo (or nil)
    peer,         \* a second handle on the same path: its cursor and cache
    threads,      \* the calls in progress on the handle, one per thread
    locks,        \* who holds indexLocker and cachedStateLocker
    last,         \* the last call on the handle: arguments, results, requests
    hist          \* the run of calls since the handle was opened

vars ==
    <<root, name, href, remote, other, index, cachedState, peer, threads, locks,
      last, hist>>

\* where the handle points, and the second path, which no call on the
\* handle touches
place == <<root, name, href, other>>

\* what belongs to the second handle and to concurrent callers
apart == <<peer, threads, locks>>

\* ---------------------------------------------------------------- bounds
MaxSize == 2      \* longest remote file
MaxBuf == 2       \* longest caller buffer
MaxHeads == 2     \* the count of metadata requests in a run saturates here
MaxPath == 4      \* longest virtual path, in characters
LongFile == 4     \* a file long enough for two full reads by concurrent callers

\* ---------------------------------------------------------------- values
Min(a, b) == IF a < b THEN a ELSE b

SubRange(s, lo, hi) == [i \in 1..(hi - lo + 1) |-> s[lo + i]]

\* the first k elements of s
Take(s, k) == [i \in 1..Min(k, Len(s)) |-> s[i]]

\* body written into data at byte offset lo, extending data when it runs over
Overwrite(data, lo, body) ==
    [i \in 1..(IF lo + Len(body) > Len(data) THEN lo + Len(body) ELSE Len(data)) |->
        IF i > lo /\ i <= lo + Len(body) THEN body[i - lo] ELSE data[i]]

\* a nil fs.FileInfo, and an HttpFileInfo; mtime is "zero" (the zero
\* time.Time) or "set"
NilInfo == [present |-> FALSE, size |-> 0, isDir |-> FALSE, mtime |-> "zero"]

HttpFileInfo(size, isDir, mtime) ==
    [present |-> TRUE, size |-> size, isDir |-> isDir, mtime |-> mtime]

\* what the server holds at the path
NoResource == [kind |-> "none", data |-> <<>>]

FileResource(data) == [kind |-> "file", data |-> data]

DirResource == [kind |-> "dir", data |-> <<>>]

\* the JSON body of a directory listing: one byte per entry, in the server's
\* order, 1 for an entry whose path_type is "Dir" and 0 for a file
DirListing == <<0, 1>>

\* ---------------------------------------------------------------- paths
\* A string is a sequence of one-character strings.
HasPrefix(s, c) == Len(s) >= 1 /\ s[1] = c

HasSuffix(s, c) == Len(s) >= 1 /\ s[Len(s)] = c

RECURSIVE TrimLeft(_, _)
TrimLeft(s, c) == IF HasPrefix(s, c) THEN TrimLeft(Tail(s), c) ELSE s

RECURSIVE TrimRight(_, _)
TrimRight(s, c) == IF HasSuffix(s, c) THEN TrimRight(SubSeq(s, 1, Len(s) - 1), c) ELSE s

\* strings.Trim(s, c)
Trim(s, c) == TrimRight(TrimLeft(s, c), c)

\* strings.Split(s, c): the pieces between the separators, empty ones too
RECURSIVE Split(_, _)
Split(s, c) ==
    IF \A i \in 1..Len(s) : s[i] # c
    THEN <<s>>
    ELSE LET i == CHOOSE k \in 1..Len(s) : s[k] = c /\ \A j \in 1..(k - 1) : s[j] # c
         IN  <<SubSeq(s, 1, i - 1)>> \o Split(SubSeq(s, i + 1, Len(s)), c)

\* strings.Join(parts, c)
RECURSIVE Join(_, _)
Join(parts, c) ==
    IF parts = <<>> THEN <<>>
    ELSE IF Len(parts) = 1 THEN parts[1]
    ELSE parts[1] \o <<c>> \o Join(Tail(parts), c)

\* the loop of appendToRoot: the non-empty pieces of name
RECURSIVE Segments(_)
Segments(parts) ==
    IF parts = <<>> THEN <<>>
    ELSE IF parts[1] # <<>> THEN <<parts[1]>> \o Segments(Tail(parts))
    ELSE Segments(Tail(parts))

\* u.Path as appendToRoot first assigns it
JoinedPath(rootPath, nm) ==
    Trim(rootPath, "/") \o <<"/">> \o Join(Segments(Split(nm, "/")), "/")

\* DufsVFS.appendToRoot: the path of the resource URL for a virtual path
appendToRoot(rootPath, nm) ==
    IF HasPrefix(nm, "/") /\ ~HasSuffix(JoinedPath(rootPath, nm), "/")
    THEN JoinedPath(rootPath, nm) \o <<"/">>
    ELSE JoinedPath(rootPath, nm)

\* ---------------------------------------------------------------- requests
\* rng: "none" (no range header), "bytes" (lo-hi, inclusive), "append"
Request(method, rng, lo, hi, body) ==
    [method |-> method, rng |-> rng, lo |-> lo, hi |-> hi, body |-> body]

HeadReq == Request("HEAD", "none", 0, 0, <<>>)

RangeGetReq(lo, hi) == Request("GET", "bytes", lo, hi, <<>>)

\* a GET with no Range header
WholeGetReq == Request("GET", "none", 0, 0, <<>>)

PutReq(body) == Request("PUT", "none", 0, 0, body)

PatchAppendReq(body) == Request("PATCH", "append", 0, 0, body)

PatchRangeReq(lo, hi, body) == Request("PATCH", "bytes", lo, hi, body)

DeleteReq == Request("DELETE", "none", 0, 0, <<>>)

MkcolReq == Request("MKCOL", "none", 0, 0, <<>>)

\* how one request can go wrong: nothing, a 500 answer, a network error;
\* for a HEAD also a date header that is no RFC 1123 date; for a GET also
\* the body of an accepted answer breaking off
Faults == {"ok", "500", "neterr"}

\* a facade request may also be answered 404 for a reason outside the path
\* itself, such as a missing parent directory
FacadeFaults == Faults \cup {"404"}

StatFaults == Faults \cup {"baddate"}

\* an answer to Stat's HEAD may also carry neither Last-Modified nor Date
DateFaults == StatFaults \cup {"nodate"}

GetFaults == Faults \cup {"bodyerr"}

\* date: "ok" (Last-Modified, or else Date, is an RFC 1123 date), "absent"
\* (neither header is there), "bad" (the one looked at does not parse)
Response(neterr, status, isDir, body, remoteAfter) ==
    [neterr |-> neterr, status |-> status, isDir |-> isDir, date |-> "ok",
     contentLength |-> Len(body), body |-> body, remote |-> remoteAfter]

Is2xx(status) == status >= 200 /\ status < 300

\* The dufs server answering one request on the path.
Serve(req, r) ==
    CASE req.method = "HEAD" ->
            IF r.kind = "none" THEN Response(FALSE, 404, FALSE, <<>>, r)
            ELSE IF r.kind = "dir" THEN Response(FALSE, 200, TRUE, DirListing, r)
            ELSE Response(FALSE, 200, FALSE, r.data, r)
      [] req.method = "GET" ->
            IF r.kind = "none" THEN Response(FALSE, 404, FALSE, <<>>, r)
            ELSE IF r.kind = "dir" THEN Response(FALSE, 200, TRUE, DirListing, r)
            ELSE IF req.rng = "bytes" THEN
                IF req.lo < 0 \/ req.lo > req.hi \/ req.lo >= Len(r.data)
                THEN Response(FALSE, 416, FALSE, <<>>, r)
                ELSE Response(FALSE, 206, FALSE,
                         SubRange(r.data, req.lo, Min(req.hi, Len(r.data) - 1)), r)
            ELSE Response(FALSE, 200, FALSE, r.data, r)
      [] req.method = "PUT" ->
            IF r.kind = "dir" THEN Response(FALSE, 403, FALSE, <<>>, r)
            ELSE Response(FALSE, 201, FALSE, <<>>, FileResource(req.body))
      [] req.method = "PATCH" ->
            IF r.kind = "none" THEN Response(FALSE, 404, FALSE, <<>>, r)
            ELSE IF r.kind = "dir" THEN Response(FALSE, 403, FALSE, <<>>, r)
            ELSE IF req.rng = "append"
            THEN Response(FALSE, 204, FALSE, <<>>, FileResource(r.data \o req.body))
            ELSE IF req.lo < 0 \/ req.lo > req.hi \/ req.lo > Len(r.data)
            THEN Response(FALSE, 400, FALSE, <<>>, r)
            ELSE Response(FALSE, 204, FALSE, <<>>,
                     FileResource(Overwrite(r.data, req.lo, req.body)))
      [] req.method = "DELETE" ->
            IF r.kind = "none" THEN Response(FALSE, 404, FALSE, <<>>, r)
            ELSE Response(FALSE, 204, FALSE, <<>>, NoResource)
      [] req.method = "MKCOL" ->
            IF r.kind = "none" THEN Response(FALSE, 201, FALSE, <<>>, DirResource)
            ELSE Response(FALSE, 405, FALSE, <<>>, r)

\* http.Client.Do: the server's answer, or what went wrong on the way
Do(req, r, fault) ==
    IF fault = "neterr" THEN Response(TRUE, 0, FALSE, <<>>, r)
    ELSE IF fault = "500" THEN Response(FALSE, 500, FALSE, <<>>, r)
    ELSE IF fault = "404" THEN Response(FALSE, 404, FALSE, <<>>, r)
    ELSE IF fault = "baddate" THEN [Serve(req, r) EXCEPT !.date = "bad"]
    ELSE IF fault = "nodate" THEN [Serve(req, r) EXCEPT !.date = "absent"]
    ELSE Serve(req, r)

\* ---------------------------------------------------------------- handle
\* The outcome of one method of the handle: the fields it leaves behind,
\* what it returns, and the requests it issued.
Outcome(idx, cache, r, n, err, out, info, reqs) ==
    [index |-> idx, cachedState |-> cache, remote |-> r,
     n |-> n, err |-> err, out |-> out, info |-> info, reqs |-> reqs]

\* DufsFile.json: nil error, or the error it maps the answer to
JsonErr(resp) ==
    IF resp.neterr THEN "transport"
    ELSE IF resp.status = 404 THEN "ErrNotExist"
    ELSE IF ~Is2xx(resp.status) THEN "ErrInvalid"
    ELSE "nil"

\* DufsFile.determineIsDir: the header triple that marks a directory listing
determineIsDir(resp) == resp.isDir

\* DufsFile.Stat after head() returned resp: on success the cache is
\* refreshed unconditionally
StatOf(resp, idx, cache, r) ==
    IF JsonErr(resp) # "nil"
    THEN Outcome(idx, cache, r, 0, JsonErr(resp), <<>>, NilInfo, <<HeadReq>>)
    ELSE IF resp.date = "bad"
    THEN Outcome(idx, cache, r, 0, "parse", <<>>, NilInfo, <<HeadReq>>)
    ELSE Outcome(idx,
                 HttpFileInfo(IF determineIsDir(resp) THEN 0 ELSE resp.contentLength,
                              determineIsDir(resp),
                              IF resp.date = "absent" THEN "zero" ELSE "set"),
                 r, 0, "nil", <<>>,
                 HttpFileInfo(IF determineIsDir(resp) THEN 0 ELSE resp.contentLength,
                              determineIsDir(resp),
                              IF resp.date = "absent" THEN "zero" ELSE "set"),
                 <<HeadReq>>)

\* DufsFile.Stat: one HEAD
Stat(idx, cache, r, fault) == StatOf(Do(HeadReq, r, fault), idx, cache, r)

\* CachedStat with the cache ignored: every call goes to the server
CachedStat_AlwaysStat(idx, cache, r, fault) == Stat(idx, cache, r, fault)

\* DufsFile.CachedStat: the cached value if there is one, else Stat
CachedStat(idx, cache, r, fault) ==
    IF cache.present
    THEN Outcome(idx, cache, r, 0, "nil", <<>>, cache, <<>>)
    ELSE Stat(idx, cache, r, fault)

\* Read's end without the clamp to the size
ReadEnd_NoClamp(idx, L, size) == idx + L - 1

\* Read's end: the last byte asked for, clamped to size - 1
ReadEnd(idx, L, size) ==
    IF idx + L - 1 >= size THEN size - 1 ELSE idx + L - 1

\* io.CopyN of the answer's body: all of it, or the first cut bytes (fewer
\* than the declared length) when the transfer breaks off
CopyN(resp, getFault, cut) ==
    IF getFault = "bodyerr" THEN Min(cut, resp.contentLength - 1) ELSE resp.contentLength

\* DufsFile.Read after the ranged GET returned resp
ReadBody(resp, cs, idx, end, r, L, getFault, cut) ==
    IF JsonErr(resp) # "nil"
    THEN Outcome(idx, cs.cachedState, r, 0, JsonErr(resp), <<>>, NilInfo,
                 Append(cs.reqs, RangeGetReq(idx, end)))
    ELSE IF determineIsDir(resp)
    THEN Outcome(idx, cs.cachedState, r, 0, "ErrInvalid", <<>>, NilInfo,
                 Append(cs.reqs, RangeGetReq(idx, end)))
    ELSE Outcome(end + 1, cs.cachedState, r, CopyN(resp, getFault, cut),
                 IF getFault = "bodyerr" THEN "bodyerr" ELSE "nil",
                 Take(Take(resp.body, CopyN(resp, getFault, cut)), L), NilInfo,
                 Append(cs.reqs, RangeGetReq(idx, end)))

\* DufsFile.Read after CachedStat returned cs
ReadAfterStat(cs, idx, r, L, getFault, cut) ==
    IF cs.err # "nil"
    THEN Outcome(idx, cs.cachedState, r, 0, cs.err, <<>>, NilInfo, cs.reqs)
    ELSE IF idx >= ReadEnd(idx, L, cs.info.size)
    THEN Outcome(idx, cs.cachedState, r, 0, "EOF", <<>>, NilInfo, cs.reqs)
    ELSE ReadBody(Do(RangeGetReq(idx, ReadEnd(idx, L, cs.info.size)), r,
                     IF getFault = "bodyerr" THEN "ok" ELSE getFault),
                  cs, idx, ReadEnd(idx, L, cs.info.size), r, L, getFault, cut)

\* DufsFile.Read with a buffer of length L.  cut is the number of body bytes
\* that arrive before the transfer breaks off when getFault = "bodyerr".
Read(idx, cache, r, L, statFault, getFault, cut) ==
    ReadAfterStat(CachedStat(idx, cache, r, statFault), idx, r, L, getFault, cut)

\* io.SeekStart, io.SeekCurrent, io.SeekEnd
SeekStart == 0
SeekCurrent == 1
SeekEnd == 2

\* the switch of DufsFile.Seek
SeekTarget(idx, size, offset, whence) ==
    CASE whence = SeekStart -> offset
      [] whence = SeekCurrent -> idx + offset
      [] whence = SeekEnd -> size + offset
      [] OTHER -> idx

\* Seek refusing the position just past the last byte
SeekCheck_RejectsEnd(cs, r, new) ==
    IF new < 0
    THEN Outcome(new, cs.cachedState, r, 0, "negative offset", <<>>, NilInfo, cs.reqs)
    ELSE IF new >= cs.info.size
    THEN Outcome(new, cs.cachedState, r, 0, "offset out of range", <<>>, NilInfo, cs.reqs)
    ELSE Outcome(new, cs.cachedState, r, new, "nil", <<>>, NilInfo, cs.reqs)

\* DufsFile.Seek after the switch: the cursor is already new when the range
\* is checked
SeekCheck(cs, r, new) ==
    IF new < 0
    THEN Outcome(new, cs.cachedState, r, 0, "negative offset", <<>>, NilInfo, cs.reqs)
    ELSE IF new > cs.info.size
    THEN Outcome(new, cs.cachedState, r, 0, "offset out of range", <<>>, NilInfo, cs.reqs)
    ELSE Outcome(new, cs.cachedState, r, new, "nil", <<>>, NilInfo, cs.reqs)

\* DufsFile.Seek after CachedStat returned cs
SeekAfterStat(cs, idx, r, offset, whence) ==
    IF cs.err # "nil"
    THEN Outcome(idx, cs.cachedState, r, 0, cs.err, <<>>, NilInfo, cs.reqs)
    ELSE SeekCheck(cs, r, SeekTarget(idx, cs.info.size, offset, whence))

\* DufsFile.Seek
Seek(idx, cache, r, offset, whence, fault) ==
    SeekAfterStat(CachedStat(idx, cache, r, fault), idx, r, offset, whence)

\* the requests of a call that ran after the requests before
After(before, o) == [o EXCEPT !.reqs = before \o o.reqs]

\* DufsFile.ReadAt after Seek(off, SeekStart) returned sk
ReadAtAfterSeek(sk, L, statFault, getFault, cut) ==
    IF sk.err # "nil"
    THEN sk
    ELSE After(sk.reqs,
               Read(sk.index, sk.cachedState, sk.remote, L, statFault, getFault, cut))

\* DufsFile.ReadAt: Seek(off, SeekStart), then Read
ReadAt(idx, cache, r, L, off, statFault, getFault, cut) ==
    ReadAtAfterSeek(Seek(idx, cache, r, off, SeekStart, statFault),
                    L, statFault, getFault, cut)

\* ReadFrom emptying the cache whatever the answer is
ReadFromResp_AlwaysInvalidates(resp, idx, cache, r, body) ==
    IF resp.neterr
    THEN Outcome(idx, NilInfo, r, 0, "transport", <<>>, NilInfo, <<PutReq(body)>>)
    ELSE IF ~Is2xx(resp.status)
    THEN Outcome(idx, NilInfo, r, 0, "status", <<>>, NilInfo, <<PutReq(body)>>)
    ELSE Outcome(idx, NilInfo, resp.remote, Len(body), "nil", <<>>, NilInfo,
                 <<PutReq(body)>>)

\* DufsFile.ReadFrom after the PUT returned resp
ReadFromResp(resp, idx, cache, r, body) ==
    IF resp.neterr
    THEN Outcome(idx, cache, r, 0, "transport", <<>>, NilInfo, <<PutReq(body)>>)
    ELSE IF ~Is2xx(resp.status)
    THEN Outcome(idx, cache, r, 0, "status", <<>>, NilInfo, <<PutReq(body)>>)
    ELSE Outcome(idx, NilInfo, resp.remote, Len(body), "nil", <<>>, NilInfo,
                 <<PutReq(body)>>)

\* DufsFile.ReadFrom: one PUT of the whole stream; body is what the stream
\* delivers, counted by ReaderSummer
ReadFrom(idx, cache, r, body, fault) ==
    ReadFromResp(Do(PutReq(body), r, fault), idx, cache, r, body)

\* the x-update-range header of WriteAt's PATCH
PatchReq(size, idx, offset, p) ==
    IF offset >= size
    THEN PatchAppendReq(p)
    ELSE PatchRangeReq(idx, offset + Len(p) - 1, p)

\* WriteAt leaving the cursor on the last byte written instead of after it
WriteAtResp_CursorOnEnd(resp, cs, idx, r, p, offset) ==
    IF resp.neterr
    THEN Outcome(idx, cs.cachedState, r, 0, "transport", <<>>, NilInfo,
                 Append(cs.reqs, PatchReq(cs.info.size, idx, offset, p)))
    ELSE IF ~Is2xx(resp.status)
    THEN Outcome(idx, cs.cachedState, r, 0, "status", <<>>, NilInfo,
                 Append(cs.reqs, PatchReq(cs.info.size, idx, offset, p)))
    ELSE Outcome(offset + Len(p) - 1, NilInfo, resp.remote, Len(p), "nil", <<>>, NilInfo,
                 Append(cs.reqs, PatchReq(cs.info.size, idx, offset, p)))

\* WriteAt that forgets to empty the cache on success
WriteAtResp_KeepsCache(resp, cs, idx, r, p, offset) ==
    IF resp.neterr
    THEN Outcome(idx, cs.cachedState, r, 0, "transport", <<>>, NilInfo,
                 Append(cs.reqs, PatchReq(cs.info.size, idx, offset, p)))
    ELSE IF ~Is2xx(resp.status)
    THEN Outcome(idx, cs.cachedState, r, 0, "status", <<>>, NilInfo,
                 Append(cs.reqs, PatchReq(cs.info.size, idx, offset, p)))
    ELSE Outcome(offset + Len(p), cs.cachedState, resp.remote, Len(p), "nil", <<>>,
                 NilInfo, Append(cs.reqs, PatchReq(cs.info.size, idx, offset, p)))

\* DufsFile.WriteAt after the PATCH returned resp
WriteAtResp(resp, cs, idx, r, p, offset) ==
    IF resp.neterr
    THEN Outcome(idx, cs.cachedState, r, 0, "transport", <<>>, NilInfo,
                 Append(cs.reqs, PatchReq(cs.info.size, idx, offset, p)))
    ELSE IF ~Is2xx(resp.status)
    THEN Outcome(idx, cs.cachedState, r, 0, "status", <<>>, NilInfo,
                 Append(cs.reqs, PatchReq(cs.info.size, idx, offset, p)))
    ELSE Outcome(offset + Len(p), NilInfo, resp.remote, Len(p), "nil", <<>>, NilInfo,
                 Append(cs.reqs, PatchReq(cs.info.size, idx, offset, p)))

\* the creating WriteAt leaving the cursor where it was
WriteAtCreate_KeepsCursor(rf) == rf

\* DufsFile.WriteAt on a resource that does not exist, offset 0, after
\* ReadFrom returned rf: the cursor becomes ReadFrom's count
WriteAtCreate(rf) == [rf EXCEPT !.index = rf.n]

\* DufsFile.WriteAt after CachedStat returned cs
WriteAtAfterStat(cs, idx, r, p, offset, writeFault) ==
    IF cs.err # "nil"
    THEN IF cs.err = "ErrNotExist" /\ offset = 0
         THEN After(cs.reqs, WriteAtCreate(ReadFrom(idx, cs.cachedState, r, p, writeFault)))
         ELSE Outcome(idx, cs.cachedState, r, 0, cs.err, <<>>, NilInfo, cs.reqs)
    ELSE WriteAtResp(Do(PatchReq(cs.info.size, idx, offset, p), r, writeFault),
                     cs, idx, r, p, offset)

\* DufsFile.WriteAt
WriteAt(idx, cache, r, p, offset, statFault, writeFault) ==
    WriteAtAfterStat(CachedStat(idx, cache, r, statFault), idx, r, p, offset, writeFault)

\* DufsFile.Write: WriteAt at the cursor
Write(idx, cache, r, p, statFault, writeFault) ==
    WriteAt(idx, cache, r, p, idx, statFault, writeFault)

\* Close leaving a handle as new
Close_ResetsHandle(idx, cache, r) == Outcome(0, NilInfo, r, 0, "nil", <<>>, NilInfo, <<>>)

\* DufsFile.Close: nothing
Close(idx, cache, r) == Outcome(idx, cache, r, 0, "nil", <<>>, NilInfo, <<>>)

\* io.Copy that leaves the last byte of the body behind
CopyAll_OneShort(resp, getFault, cut) ==
    IF Len(resp.body) = 0 THEN 0 ELSE Len(resp.body) - 1

\* io.Copy / io.ReadAll of the answer's body: all of it, or the first cut
\* bytes when the transfer breaks off
CopyAll(resp, getFault, cut) ==
    IF getFault = "bodyerr" THEN Min(cut, Len(resp.body)) ELSE Len(resp.body)

\* DufsFile.WriteTo after the GET returned resp: whatever the body is goes
\* to the writer
\* a WriteTo that moves the cursor past what it copied
WriteToResp_MovesCursor(resp, idx, cache, r, getFault, cut) ==
    IF JsonErr(resp) # "nil"
    THEN Outcome(idx, cache, r, 0, JsonErr(resp), <<>>, NilInfo, <<WholeGetReq>>)
    ELSE Outcome(CopyAll(resp, getFault, cut), cache, r, CopyAll(resp, getFault, cut),
                 IF getFault = "bodyerr" THEN "bodyerr" ELSE "nil",
                 Take(resp.body, CopyAll(resp, getFault, cut)), NilInfo, <<WholeGetReq>>)

WriteToResp(resp, idx, cache, r, getFault, cut) ==
    IF JsonErr(resp) # "nil"
    THEN Outcome(idx, cache, r, 0, JsonErr(resp), <<>>, NilInfo, <<WholeGetReq>>)
    ELSE Outcome(idx, cache, r, CopyAll(resp, getFault, cut),
                 IF getFault = "bodyerr" THEN "bodyerr" ELSE "nil",
                 Take(resp.body, CopyAll(resp, getFault, cut)), NilInfo, <<WholeGetReq>>)

\* DufsFile.WriteTo: one GET of the whole resource, copied to the writer
WriteTo(idx, cache, r, getFault, cut) ==
    WriteToResp(Do(WholeGetReq, r, IF getFault = "bodyerr" THEN "ok" ELSE getFault),
                idx, cache, r, getFault, cut)

PathTypeDir == "Dir"

\* json.Unmarshal of the listing into DufsJSONIndex.Paths; an entry's name is
\* its place in the listing
Unmarshal(body) ==
    [i \in 1..Len(body) |->
        [name |-> i, path_type |-> IF body[i] = 1 THEN PathTypeDir ELSE "File"]]

\* the HttpDirEntry made of one DufsJSONFile
HttpDirEntry(file) == [name |-> file.name, isDir |-> file.path_type = PathTypeDir]

\* the loop stopping one entry late
DirEntries_OneMore(paths, limit) ==
    [i \in 1..(IF limit > 0 THEN Min(limit + 1, Len(paths)) ELSE Len(paths)) |->
        HttpDirEntry(paths[i])]

\* the loop of DufsFile.ReadDir over the listing's paths: it stops once
\* limit entries are collected, when limit > 0
DirEntries(paths, limit) ==
    [i \in 1..(IF limit > 0 THEN Min(limit, Len(paths)) ELSE Len(paths)) |->
        HttpDirEntry(paths[i])]

\* DufsFile.ReadDir after the GET returned resp
ReadDirResp(resp, idx, cache, r, limit, getFault) ==
    IF JsonErr(resp) # "nil"
    THEN Outcome(idx, cache, r, 0, JsonErr(resp), <<>>, NilInfo, <<WholeGetReq>>)
    ELSE IF ~determineIsDir(resp)
    THEN Outcome(idx, cache, r, 0, "ErrInvalid", <<>>, NilInfo, <<WholeGetReq>>)
    ELSE IF getFault = "bodyerr"
    THEN Outcome(idx, cache, r, 0, "bodyerr", <<>>, NilInfo, <<WholeGetReq>>)
    ELSE Outcome(idx, cache, r, Len(DirEntries(Unmarshal(resp.body), limit)), "nil",
                 DirEntries(Unmarshal(resp.body), limit), NilInfo, <<WholeGetReq>>)

\* DufsFile.ReadDir: one GET of the listing
ReadDir(idx, cache, r, limit, getFault) ==
    ReadDirResp(Do(WholeGetReq, r, IF getFault = "bodyerr" THEN "ok" ELSE getFault),
                idx, cache, r, limit, getFault)

\* HttpVFS.ReadFile's buf: a nil slice the bytes.Buffer is created from; the
\* buffer grows its own storage, so buf stays what it was
ReadFileBuf == <<>>

\* HttpVFS.ReadFile after io.Copy, which is WriteTo on a new handle,
\* returned w: the error, or buf
ReadFileAfter(w, idx, cache) ==
    IF w.err # "nil"
    THEN Outcome(idx, cache, w.remote, 0, w.err, <<>>, NilInfo, w.reqs)
    ELSE Outcome(idx, cache, w.remote, Len(ReadFileBuf), "nil", ReadFileBuf, NilInfo, w.reqs)

\* HttpVFS.ReadFile on the handle's path, through a handle of its own
ReadFile(idx, cache, r, getFault, cut) ==
    ReadFileAfter(WriteTo(0, NilInfo, r, getFault, cut), idx, cache)

\* the facade treating 404 as does-not-exist whatever the call
FacadeErr_NotFoundEverywhere(resp, special, specialErr) ==
    IF resp.neterr THEN "transport"
    ELSE IF ~Is2xx(resp.status)
    THEN IF resp.status = 404 THEN "ErrNotExist"
         ELSE IF resp.status = special THEN specialErr ELSE "status"
    ELSE "nil"

\* the facade with no status singled out
FacadeErr_StatusOnly(resp, special, specialErr) ==
    IF resp.neterr THEN "transport"
    ELSE IF ~Is2xx(resp.status) THEN "status"
    ELSE "nil"

\* The facade's mapping of an answer to an error: one status is special
FacadeErr(resp, special, specialErr) ==
    IF resp.neterr THEN "transport"
    ELSE IF ~Is2xx(resp.status)
    THEN IF resp.status = special THEN specialErr ELSE "status"
    ELSE "nil"

FacadeOutcome(resp, idx, cache, req, special, specialErr) ==
    Outcome(idx, cache, resp.remote, 0, FacadeErr(resp, special, specialErr),
            <<>>, NilInfo, <<req>>)

\* DufsVFS.Remove on the handle's path: the handle is not involved
Remove(idx, cache, r, fault) ==
    FacadeOutcome(Do(DeleteReq, r, fault), idx, cache, DeleteReq, 404, "ErrNotExist")

\* DufsVFS.Mkdir on the handle's path: the handle is not involved
Mkdir(idx, cache, r, fault) ==
    FacadeOutcome(Do(MkcolReq, r, fault), idx, cache, MkcolReq, 405, "ErrExist")

\* HttpVFS.Stat on a path: Stat on a handle of its own
StatPath(r, fault) == Stat(0, NilInfo, r, fault)

\* ---------------------------------------------------------------- two paths
\* COPY and MOVE name two URLs: the request's own and its Destination
TransferReq(method, url, dest) == [method |-> method, url |-> url, dest |-> dest]

TransferResponse(neterr, status, storeAfter) ==
    [neterr |-> neterr, status |-> status, store |-> storeAfter]

\* the path a URL addresses, among the paths the store holds
PathOf(url, store, rootPath) ==
    CHOOSE nm \in DOMAIN store : appendToRoot(rootPath, nm) = url

\* what COPY or MOVE from src to dst leaves in the store
Transferred(method, src, dst, store) ==
    [nm \in DOMAIN store |->
        IF nm = dst THEN store[src]
        ELSE IF nm = src /\ method = "MOVE" THEN NoResource
        ELSE store[nm]]

\* The dufs server answering COPY or MOVE: a file is copied over whatever
\* the destination holds, a directory is not copied, anything is moved.
ServeTransfer(req, store, rootPath) ==
    IF store[PathOf(req.url, store, rootPath)].kind = "none"
    THEN TransferResponse(FALSE, 404, store)
    ELSE IF req.method = "COPY" /\ store[PathOf(req.url, store, rootPath)].kind = "dir"
    THEN TransferResponse(FALSE, 403, store)
    ELSE TransferResponse(FALSE, 204,
             Transferred(req.method, PathOf(req.url, store, rootPath),
                         PathOf(req.dest, store, rootPath), store))

DoTransfer(req, store, rootPath, fault) ==
    IF fault = "neterr" THEN TransferResponse(TRUE, 0, store)
    ELSE IF fault = "500" THEN TransferResponse(FALSE, 500, store)
    ELSE IF fault = "404" THEN TransferResponse(FALSE, 404, store)
    ELSE ServeTransfer(req, store, rootPath)

\* The outcome of a facade call: the store it leaves, what it returns, and
\* the requests it issued.
StoreOutcome(store, err, info, reqs) ==
    [store |-> store, err |-> err, info |-> info, reqs |-> reqs]

\* a facade call on one path, from the outcome o of the call on that path
OnPath(nm, store, o) ==
    StoreOutcome([store EXCEPT ![nm] = o.remote], o.err, o.info, o.reqs)

\* copyOrRename with source and target swapped in the request
TransferRequest_Swapped(dst, src, isRenaming, rootPath) ==
    TransferReq(IF isRenaming THEN "MOVE" ELSE "COPY",
                appendToRoot(rootPath, dst), appendToRoot(rootPath, src))

\* the request of DufsVFS.copyOrRename: the verb on src's URL, Destination
\* dst's URL
TransferRequest(dst, src, isRenaming, rootPath) ==
    TransferReq(IF isRenaming THEN "MOVE" ELSE "COPY",
                appendToRoot(rootPath, src), appendToRoot(rootPath, dst))

\* DufsVFS.copyOrRename after the request req was answered resp
copyOrRenameResp(resp, req) ==
    StoreOutcome(resp.store, FacadeErr(resp, 404, "ErrNotExist"), NilInfo, <<req>>)

\* DufsVFS.copyOrRename
copyOrRename(dst, src, isRenaming, store, rootPath, fault) ==
    copyOrRenameResp(
        DoTransfer(TransferRequest(dst, src, isRenaming, rootPath), store, rootPath, fault),
        TransferRequest(dst, src, isRenaming, rootPath))

\* DufsVFS.Rename
Rename(oldname, newname, store, rootPath, fault) ==
    copyOrRename(newname, oldname, TRUE, store, rootPath, fault)

\* DufsVFS.Copy
Copy(dst, src, store, rootPath, fault) ==
    copyOrRename(dst, src, FALSE, store, rootPath, fault)

\* ---------------------------------------------------------------- state machine
\* Byte strings are chosen so that every byte tells where it came from: the
\* file the server starts with holds 1, 2, ... at its offsets, and the
\* caller's buffers hold 11, 12, ...
Ramp(k, base) == [i \in 1..k |-> base + i]

InitialFiles == {Ramp(k, 0) : k \in 0..MaxSize}

Buffers == {Ramp(k, 10) : k \in 1..MaxBuf}

\* streams handed to ReadFrom: the buffers, and the empty stream
Streams == Buffers \cup {<<>>}

BufLens == 1..MaxBuf

SeekOffsets == (0 - 1)..MaxSize

WriteOffsets == 0..MaxSize

Whences == {SeekStart, SeekCurrent, SeekEnd}

\* ReadDir's n: all entries, or at most that many
DirLimits == (0 - 1)..(Len(DirListing) + 1)

\* A call issues at most a metadata request and then a data request, and the
\* data request is only issued when the metadata request was answered: a
\* plan says which of the two goes wrong, if any.
FaultPlans ==
    {[stat |-> f, data |-> "ok"] : f \in StatFaults}
        \cup {[stat |-> "ok", data |-> f] : f \in GetFaults}

StatPlans == {fp \in FaultPlans : fp.data = "ok"}

WritePlans == {fp \in FaultPlans : fp.data # "bodyerr"}

\* a missing date header is an answer like any other
Answered(fp) == fp.stat \in {"ok", "nodate"} /\ fp.data = "ok"

NoFault == [stat |-> "ok", data |-> "ok"]

\* the plan of a call that issues one request: a metadata request, or another
StatPlan(f) == [stat |-> f, data |-> "ok"]

DataPlan(f) == [stat |-> "ok", data |-> f]

\* with metadata cached no metadata request is issued, so none can go wrong
Applies(fp) == cachedState.present => fp.stat = "ok"

\* the model keeps the cursor and the remote file within the bounds
InBounds(o) ==
    /\ o.index >= 0 - 1
    /\ o.index <= MaxSize + 1
    /\ Len(o.remote.data) <= MaxSize

CountHeads(reqs) == Cardinality({i \in 1..Len(reqs) : reqs[i].method = "HEAD"})

FreshRun ==
    [run |-> "fresh", acc |-> <<>>, B |-> 0, heads |-> 0, seeked |-> FALSE, put |-> <<>>]

NoRun(heads, seeked, put) ==
    [run |-> "none", acc |-> <<>>, B |-> 0, heads |-> heads, seeked |-> seeked,
     put |-> put]

\* The run of calls since Open.  "read": only Reads with one buffer length B
\* on a file, every request answered; acc is what they returned, in order.
\* "write": only Writes on a path that did not exist at Open, every request
\* answered; acc is what they were given, in order.  heads counts the HEAD
\* requests of the current unbroken sequence of successful Read, Seek and
\* CachedStat calls (end-of-data counts as success).  seeked says that the
\* call just made was a successful Seek from the start of the file.  put
\* holds the stream of the successful ReadFrom that was the call just made
\* (opening a new handle in between does not count as a call), and is empty
\* otherwise.
NextHist(op, buf, L, whence, answered, o) ==
    LET seeked == op = "Seek" /\ whence = SeekStart /\ o.err = "nil"
        put == IF op = "ReadFrom" /\ o.err = "nil" THEN <<buf>> ELSE <<>>
        heads == IF op \in {"Read", "Seek", "CachedStat"} /\ o.err \in {"nil", "EOF"}
                 THEN Min(hist.heads + CountHeads(o.reqs), MaxHeads)
                 ELSE IF op \in {"Remove", "Mkdir", "ReadFile"} THEN hist.heads
                 ELSE 0
    IN  IF /\ op = "Read" /\ answered /\ remote.kind = "file"
           /\ (hist.run = "fresh" \/ (hist.run = "read" /\ hist.B = L))
        THEN [run |-> "read", acc |-> hist.acc \o o.out, B |-> L, heads |-> heads,
              seeked |-> FALSE, put |-> <<>>]
        ELSE IF /\ op = "Write" /\ answered
                /\ ((hist.run = "fresh" /\ remote.kind = "none") \/ hist.run = "write")
        THEN [run |-> "write", acc |-> hist.acc \o buf, B |-> 0, heads |-> heads,
              seeked |-> FALSE, put |-> <<>>]
        ELSE NoRun(heads, seeked, put)

\* The record of the call whose result the caller holds: its arguments, what
\* it returned, the requests it issued, and the state it started from.
NoCall ==
    [op |-> "none", buf |-> <<>>, L |-> 0, off |-> 0, whence |-> 0,
     plan |-> NoFault, answered |-> TRUE, n |-> 0, err |-> "nil", out |-> <<>>,
     info |-> NilInfo,
     reqs |-> <<>>, preIndex |-> 0, preCache |-> NilInfo, preRemote |-> NoResource,
     afterSeek |-> FALSE, prePut |-> <<>>]

\* A call is made when the caller holds no result, and runs to its return.
Call(op, buf, L, off, whence, plan, o) ==
    /\ last = NoCall
    /\ InBounds(o)
    /\ UNCHANGED <<place, apart>>
    /\ remote' = o.remote
    /\ index' = o.index
    /\ cachedState' = o.cachedState
    /\ last' = [op |-> op, buf |-> buf, L |-> L, off |-> off, whence |-> whence,
                plan |-> plan, answered |-> Answered(plan), n |-> o.n, err |-> o.err, out |-> o.out, info |-> o.info,
                reqs |-> o.reqs, preIndex |-> index, preCache |-> cachedState,
                preRemote |-> remote, afterSeek |-> hist.seeked,
                prePut |-> hist.put]
    /\ hist' = NextHist(op, buf, L, whence, Answered(plan), o)

\* DufsFile as NewDufsFile leaves it: cursor 0, nothing cached
NewDufsFile == [index |-> 0, cachedState |-> NilInfo]

\* sync.Mutex values: 0 when free, else the thread that holds it
NoLocks == [indexLocker |-> 0, cachedStateLocker |-> 0]

\* one handle, one caller at a time
Alone ==
    /\ peer = NewDufsFile
    /\ threads = <<>>
    /\ locks = NoLocks

\* the handle of the state machine is opened on one path of one root
HandleRoot == <<"/", "r">>

HandleName == <<"a">>

Init ==
    /\ root = HandleRoot
    /\ name = HandleName
    /\ href = appendToRoot(root, name)
    /\ other = NoResource
    /\ Alone
    /\ remote \in {NoResource, DirResource} \cup {FileResource(d) : d \in InitialFiles}
    /\ index = 0
    /\ cachedState = NilInfo
    /\ last = NoCall
    /\ hist = FreshRun

\* DufsVFS.Open through NewDufsFile: a new handle on the same path
DoOpen ==
    /\ last = NoCall
    /\ index' = 0
    /\ cachedState' = NilInfo
    /\ last' = [NoCall EXCEPT !.op = "Open", !.preIndex = index,
                              !.preCache = cachedState, !.preRemote = remote]
    /\ hist' = [FreshRun EXCEPT !.put = hist.put]
    /\ UNCHANGED <<remote, place, apart>>

\* the caller has looked at the result and is ready for its next call
Return ==
    /\ last # NoCall
    /\ last' = NoCall
    /\ UNCHANGED <<remote, index, cachedState, hist, place, apart>>

DoClose ==
    Call("Close", <<>>, 0, 0, 0, NoFault, Close(index, cachedState, remote))

DoStat ==
    \E f \in DateFaults :
        Call("Stat", <<>>, 0, 0, 0, StatPlan(f), Stat(index, cachedState, remote, f))

DoCachedStat ==
    \E fp \in StatPlans :
        /\ Applies(fp)
        /\ Call("CachedStat", <<>>, 0, 0, 0, fp,
                CachedStat(index, cachedState, remote, fp.stat))

DoRead ==
    \E L \in BufLens, fp \in FaultPlans, cut \in 0..(MaxBuf - 1) :
        /\ Applies(fp)
        /\ (fp.data # "bodyerr" => cut = 0)
        /\ Call("Read", <<>>, L, 0, 0, fp,
                Read(index, cachedState, remote, L, fp.stat, fp.data, cut))

DoReadAt ==
    \E L \in BufLens, off \in WriteOffsets, fp \in FaultPlans, cut \in 0..(MaxBuf - 1) :
        /\ Applies(fp)
        /\ (fp.data # "bodyerr" => cut = 0)
        /\ Call("ReadAt", <<>>, L, off, 0, fp,
                ReadAt(index, cachedState, remote, L, off, fp.stat, fp.data, cut))

DoSeek ==
    \E off \in SeekOffsets, w \in Whences, fp \in StatPlans :
        /\ Applies(fp)
        /\ Call("Seek", <<>>, 0, off, w, fp,
                Seek(index, cachedState, remote, off, w, fp.stat))

DoReadFrom ==
    \E body \in Streams, f \in Faults :
        Call("ReadFrom", body, 0, 0, 0, DataPlan(f),
             ReadFrom(index, cachedState, remote, body, f))

DoWriteAt ==
    \E p \in Buffers, off \in WriteOffsets, fp \in WritePlans :
        /\ Applies(fp)
        /\ Call("WriteAt", p, Len(p), off, 0, fp,
                WriteAt(index, cachedState, remote, p, off, fp.stat, fp.data))

DoWrite ==
    \E p \in Buffers, fp \in WritePlans :
        /\ Applies(fp)
        /\ Call("Write", p, Len(p), index, 0, fp,
                Write(index, cachedState, remote, p, fp.stat, fp.data))

DoWriteTo ==
    \E f \in GetFaults, cut \in 0..(MaxBuf - 1) :
        /\ (f # "bodyerr" => cut = 0)
        /\ Call("WriteTo", <<>>, 0, 0, 0, DataPlan(f),
                WriteTo(index, cachedState, remote, f, cut))

DoReadDir ==
    \E limit \in DirLimits, f \in GetFaults :
        Call("ReadDir", <<>>, limit, 0, 0, DataPlan(f),
             ReadDir(index, cachedState, remote, limit, f))

DoReadFile ==
    \E f \in GetFaults, cut \in 0..(MaxBuf - 1) :
        /\ (f # "bodyerr" => cut = 0)
        /\ Call("ReadFile", <<>>, 0, 0, 0, DataPlan(f),
                ReadFile(index, cachedState, remote, f, cut))

DoRemove ==
    \E f \in Faults :
        Call("Remove", <<>>, 0, 0, 0, DataPlan(f), Remove(index, cachedState, remote, f))

DoMkdir ==
    \E f \in Faults :
        Call("Mkdir", <<>>, 0, 0, 0, DataPlan(f), Mkdir(index, cachedState, remote, f))

Next ==
    \/ DoOpen
    \/ DoClose
    \/ DoStat
    \/ DoCachedStat
    \/ DoRead
    \/ DoReadAt
    \/ DoSeek
    \/ DoReadFrom
    \/ DoWriteAt
    \/ DoWrite
    \/ DoWriteTo
    \/ DoReadDir
    \/ DoReadFile
    \/ DoRemove
    \/ DoMkdir
    \/ Return

Spec == Init /\ [][Next]_vars

\* ---------------------------------------------------------------- path resolution
\* The resolution of virtual paths to resource URLs, on its own: handles are
\* opened on every path over a small alphabet, under each root, and nothing
\* is done with them.
PathChars == {"/", "a", "b"}

Names == UNION {[1..k -> PathChars] : k \in 0..MaxPath}

\* the path of the root URL: a server root, or a directory below it
Roots == {<<>>, <<"/", "r">>}

PathInit ==
    /\ root \in Roots
    /\ name = <<>>
    /\ href = appendToRoot(root, name)
    /\ other = NoResource
    /\ Alone
    /\ remote = NoResource
    /\ index = 0
    /\ cachedState = NilInfo
    /\ last = NoCall
    /\ hist = FreshRun

\* OpenFunc of NewDufsVFS: appendToRoot, then NewDufsFile
OpenPath ==
    \E nm \in Names :
        /\ name' = nm
        /\ href' = appendToRoot(root, nm)
        /\ index' = 0
        /\ cachedState' = NilInfo
        /\ UNCHANGED <<root, remote, other, last, hist, apart>>

PathNext == OpenPath

PathSpec == PathInit /\ [][PathNext]_vars

\* ---------------------------------------------------------------- facade
\* The facade's operations on two paths of one root: the handle's path and
\* a second one.  No handle is kept: every call opens what it needs.
OtherName == <<"b">>

FacadeNames == {HandleName, OtherName}

\* the second path starts with bytes of its own
OtherFiles == {Ramp(1, 20)}

Store(r, o) == [nm \in FacadeNames |-> IF nm = HandleName THEN r ELSE o]

\* the call whose result the caller holds, and a summary of the one before
NoPrev == [op |-> "none", dst |-> <<>>, src |-> <<>>, err |-> "nil"]

NoFacadeCall ==
    [op |-> "none", dst |-> <<>>, src |-> <<>>, fault |-> "ok", err |-> "nil",
     info |-> NilInfo, reqs |-> <<>>, preStore |-> Store(NoResource, NoResource),
     prev |-> NoPrev]

FacadeCall(op, dst, src, fault, o) ==
    /\ last = NoFacadeCall
    /\ remote' = o.store[HandleName]
    /\ other' = o.store[OtherName]
    /\ last' = [op |-> op, dst |-> dst, src |-> src, fault |-> fault, err |-> o.err,
                info |-> o.info, reqs |-> o.reqs, preStore |-> Store(remote, other),
                prev |-> hist]
    /\ hist' = [op |-> op, dst |-> dst, src |-> src, err |-> o.err]
    /\ UNCHANGED <<root, name, href, index, cachedState, apart>>

FacadeInit ==
    /\ root = HandleRoot
    /\ name = HandleName
    /\ href = appendToRoot(root, name)
    /\ remote \in {NoResource, DirResource} \cup {FileResource(d) : d \in InitialFiles}
    /\ other \in {NoResource, DirResource} \cup {FileResource(d) : d \in OtherFiles}
    /\ Alone
    /\ index = 0
    /\ cachedState = NilInfo
    /\ last = NoFacadeCall
    /\ hist = NoPrev

FacadeMkdir ==
    \E nm \in FacadeNames, f \in FacadeFaults :
        FacadeCall("Mkdir", nm, nm, f,
                   OnPath(nm, Store(remote, other),
                          Mkdir(0, NilInfo, Store(remote, other)[nm], f)))

FacadeRemove ==
    \E nm \in FacadeNames, f \in FacadeFaults :
        FacadeCall("Remove", nm, nm, f,
                   OnPath(nm, Store(remote, other),
                          Remove(0, NilInfo, Store(remote, other)[nm], f)))

FacadeStat ==
    \E nm \in FacadeNames, f \in FacadeFaults :
        FacadeCall("Stat", nm, nm, f,
                   OnPath(nm, Store(remote, other),
                          StatPath(Store(remote, other)[nm], f)))

FacadeCopy ==
    \E dst \in FacadeNames, src \in FacadeNames, f \in FacadeFaults :
        /\ dst # src
        /\ FacadeCall("Copy", dst, src, f, Copy(dst, src, Store(remote, other), root, f))

FacadeRename ==
    \E old \in FacadeNames, new \in FacadeNames, f \in FacadeFaults :
        /\ old # new
        /\ FacadeCall("Rename", new, old, f,
                      Rename(old, new, Store(remote, other), root, f))

\* the caller has looked at the result and is ready for its next call
FacadeReturn ==
    /\ last # NoFacadeCall
    /\ last' = NoFacadeCall
    /\ UNCHANGED <<root, name, href, remote, other, index, cachedState, hist, apart>>

FacadeNext ==
    \/ FacadeMkdir
    \/ FacadeRemove
    \/ FacadeStat
    \/ FacadeCopy
    \/ FacadeRename
    \/ FacadeReturn

FacadeSpec == FacadeInit /\ [][FacadeNext]_vars

\* ---------------------------------------------------------------- two handles
\* Two handles on the same path, used in turn by one caller; every request
\* is answered.
HandleIds == {"A", "B"}

Handles == [A |-> [index |-> index, cachedState |-> cachedState], B |-> peer]

\* the handle's fields kept where every handle of the facade sees them
Assign_SharedCache(h, hs, o) ==
    [k \in DOMAIN hs |->
        [index |-> IF k = h THEN o.index ELSE hs[k].index,
         cachedState |-> o.cachedState]]

\* a method assigns the fields of its receiver, which no other handle shares
Assign(h, hs, o) ==
    [hs EXCEPT ![h] = [index |-> o.index, cachedState |-> o.cachedState]]

\* HttpVFS.Open: OpenFunc resolves the URL and constructs the handle
Open(r) ==
    Outcome(NewDufsFile.index, NewDufsFile.cachedState, r, 0, "nil", <<>>, NilInfo, <<>>)

NoPeerCall ==
    [handle |-> "none", op |-> "none", err |-> "nil", reqs |-> <<>>,
     pre |-> [A |-> NewDufsFile, B |-> NewDufsFile], preRemote |-> NoResource]

PeerCall(h, op, o) ==
    /\ last = NoPeerCall
    /\ InBounds(o)
    /\ remote' = o.remote
    /\ index' = Assign(h, Handles, o).A.index
    /\ cachedState' = Assign(h, Handles, o).A.cachedState
    /\ peer' = Assign(h, Handles, o).B
    /\ last' = [handle |-> h, op |-> op, err |-> o.err, reqs |-> o.reqs,
                pre |-> Handles, preRemote |-> remote]
    /\ UNCHANGED <<place, threads, locks, hist>>

PeerInit ==
    /\ root = HandleRoot
    /\ name = HandleName
    /\ href = appendToRoot(root, name)
    /\ other = NoResource
    /\ Alone
    /\ remote \in {NoResource, DirResource} \cup {FileResource(d) : d \in InitialFiles}
    /\ index = 0
    /\ cachedState = NilInfo
    /\ last = NoPeerCall
    /\ hist = FreshRun

PeerOpen ==
    \E h \in HandleIds : PeerCall(h, "Open", Open(remote))

PeerClose ==
    \E h \in HandleIds :
        PeerCall(h, "Close", Close(Handles[h].index, Handles[h].cachedState, remote))

PeerStat ==
    \E h \in HandleIds :
        PeerCall(h, "Stat", Stat(Handles[h].index, Handles[h].cachedState, remote, "ok"))

PeerCachedStat ==
    \E h \in HandleIds :
        PeerCall(h, "CachedStat",
                 CachedStat(Handles[h].index, Handles[h].cachedState, remote, "ok"))

PeerRead ==
    \E h \in HandleIds, L \in BufLens :
        PeerCall(h, "Read",
                 Read(Handles[h].index, Handles[h].cachedState, remote, L, "ok", "ok", 0))

PeerSeek ==
    \E h \in HandleIds, off \in SeekOffsets :
        PeerCall(h, "Seek",
                 Seek(Handles[h].index, Handles[h].cachedState, remote, off, SeekStart, "ok"))

PeerWrite ==
    \E h \in HandleIds, p \in Buffers :
        PeerCall(h, "Write",
                 Write(Handles[h].index, Handles[h].cachedState, remote, p, "ok", "ok"))

\* the caller has looked at the result and is ready for its next call
PeerReturn ==
    /\ last # NoPeerCall
    /\ last' = NoPeerCall
    /\ UNCHANGED <<remote, index, cachedState, peer, place, threads, locks, hist>>

PeerNext ==
    \/ PeerOpen
    \/ PeerClose
    \/ PeerStat
    \/ PeerCachedStat
    \/ PeerRead
    \/ PeerSeek
    \/ PeerWrite
    \/ PeerReturn

PeerSpec == PeerInit /\ [][PeerNext]_vars

\* ---------------------------------------------------------------- threads
\* Two threads, each making one call on the same handle.  A call is a
\* sequence of steps; a step is what the method does between two points at
\* which another thread can be seen or can see it: taking a lock, a request
\* reaching the server, an assignment to a field after the answer.  Every
\* request is answered.
Threads == {1, 2}

ThreadFiles == {Ramp(1, 0), Ramp(LongFile, 0)}

\* offsets given to ReadAt, WriteAt and Seek by concurrent callers
ThreadOffsets == {0, 2}

\* a thread: the call it makes, where it is in it, the method's local
\* variables, and what the call returned
\*   phase   ReadAt is in its Seek ("seek") or in its Read ("read")
\*   offset  WriteAt's offset argument; for Write, the cursor as Write read it
\*   stat    what CachedStat returned, serr its error
\*   pend    what the method assigns once the answer to its write is in
NoThread ==
    [pc |-> "idle", op |-> "none", phase |-> "none", L |-> 0, off |-> 0,
     whence |-> 0, buf |-> <<>>, offset |-> 0, stat |-> NilInfo, serr |-> "nil",
     pend |-> [index |-> 0, ok |-> FALSE], n |-> 0, err |-> "nil", out |-> <<>>,
     reqs |-> <<>>]

ThreadCall(op, L, off, whence, buf) ==
    [NoThread EXCEPT !.op = op, !.L = L, !.off = off, !.whence = whence, !.buf = buf]

ThreadCalls ==
    {ThreadCall("Read", L, 0, 0, <<>>) : L \in BufLens}
        \cup {ThreadCall("ReadAt", L, off, SeekStart, <<>>) :
                    L \in BufLens, off \in ThreadOffsets}
        \cup {ThreadCall("Seek", 0, off, SeekStart, <<>>) : off \in ThreadOffsets}
        \cup {ThreadCall("Write", Len(p), 0, 0, p) : p \in Buffers}
        \cup {ThreadCall("WriteAt", Len(p), off, 0, p) :
                    p \in Buffers, off \in ThreadOffsets}
        \cup {ThreadCall("Stat", 0, 0, 0, <<>>), ThreadCall("CachedStat", 0, 0, 0, <<>>)}
        \cup {ThreadCall("ReadFrom", Len(p), 0, 0, p) : p \in Buffers}

\* where a call starts
FirstPc(op) ==
    CASE op = "Read" -> "rd_lock"
      [] op = "Write" -> "wr_load"
      [] op = "WriteAt" -> "wa_lock"
      [] op = "Stat" -> "st_head"
      [] op = "ReadFrom" -> "rf_send"
      [] OTHER -> "cs_enter"

\* where a call goes on when its CachedStat has returned
AfterCs(th) ==
    IF th.op = "CachedStat" THEN "done"
    ELSE IF th.op = "Seek" \/ (th.op = "ReadAt" /\ th.phase = "seek") THEN "sk_lock"
    ELSE IF th.op \in {"Read", "ReadAt"} THEN "rd_range"
    ELSE "wa_send"

\* CachedStat's result as the rest of the method sees it
Cs(th) == Outcome(index, cachedState, remote, 0, th.serr, <<>>, th.stat, th.reqs)

\* a call returns
Returned(th, n, err, out, reqs) ==
    [th EXCEPT !.pc = "done", !.n = n, !.err = err, !.out = out, !.reqs = reqs,
               !.stat = NilInfo, !.serr = "nil", !.pend = NoThread.pend]

ThreadInit ==
    /\ root = HandleRoot
    /\ name = HandleName
    /\ href = appendToRoot(root, name)
    /\ other = NoResource
    /\ peer = NewDufsFile
    /\ remote \in {NoResource, DirResource} \cup {FileResource(d) : d \in ThreadFiles}
    /\ cachedState \in {NilInfo, StatPath(remote, "ok").info}
    /\ index \in 0..cachedState.size
    /\ threads = [t \in Threads |-> NoThread]
    /\ locks = NoLocks
    /\ last = NoCall
    /\ hist = [index |-> index, cachedState |-> cachedState, remote |-> remote]

\* what no step of a thread touches
still == <<place, peer, last, hist>>

\* sync.Mutex
Free_Always(l) == TRUE

Free(l) == locks[l] = 0

Lock(t, l) == [locks EXCEPT ![l] = t]

\* a return path that leaves the lock taken
Unlock_Forgotten(l) == locks

Unlock(l) == [locks EXCEPT ![l] = 0]

Step(t, th) == threads' = [threads EXCEPT ![t] = th]

\* a thread calls a method of the handle
StartOf(t, calls) ==
    /\ threads[t].pc = "idle"
    /\ \E c \in calls :
           Step(t, [c EXCEPT !.pc = FirstPc(c.op),
                             !.offset = c.off,
                             !.phase = IF c.op = "ReadAt" THEN "seek" ELSE "none"])
    /\ UNCHANGED <<remote, index, cachedState, locks, still>>

Start(t) == StartOf(t, ThreadCalls)

\* Write evaluates d.index, the argument of its call of WriteAt, before
\* WriteAt takes the lock
LoadIndex(t) ==
    /\ threads[t].pc = "wr_load"
    /\ Step(t, [threads[t] EXCEPT !.pc = "wa_lock", !.offset = index])
    /\ UNCHANGED <<remote, index, cachedState, locks, still>>

\* Read and WriteAt open with d.indexLocker.Lock()
LockIndex(t) ==
    /\ threads[t].pc \in {"rd_lock", "wa_lock"}
    /\ Free("indexLocker")
    /\ locks' = Lock(t, "indexLocker")
    /\ Step(t, [threads[t] EXCEPT !.pc = "cs_enter"])
    /\ UNCHANGED <<remote, index, cachedState, still>>

\* CachedStat takes cachedStateLocker; a cached state is returned at once,
\* otherwise Stat's HEAD reaches the server with the lock held
EnterCachedStat(t) ==
    /\ threads[t].pc = "cs_enter"
    /\ Free("cachedStateLocker")
    /\ IF cachedState.present
       THEN /\ Step(t, IF threads[t].op = "CachedStat"
                       THEN [Returned(threads[t], 0, "nil", <<>>, threads[t].reqs)
                                EXCEPT !.stat = cachedState]
                       ELSE [threads[t] EXCEPT !.stat = cachedState, !.serr = "nil",
                                               !.pc = AfterCs(threads[t])])
            /\ UNCHANGED locks
       ELSE /\ Step(t, [threads[t] EXCEPT
                           !.stat = StatPath(remote, "ok").info,
                           !.serr = StatPath(remote, "ok").err,
                           !.reqs = Append(threads[t].reqs, HeadReq),
                           !.pc = "cs_store"])
            /\ locks' = Lock(t, "cachedStateLocker")
    /\ UNCHANGED <<remote, index, cachedState, still>>

\* Stat, called by CachedStat, has its answer: it assigns d.cachedState,
\* CachedStat returns and releases cachedStateLocker
StoreStat(t) ==
    /\ threads[t].pc = "cs_store"
    /\ cachedState' = IF threads[t].serr = "nil" THEN threads[t].stat ELSE cachedState
    /\ locks' = Unlock("cachedStateLocker")
    /\ Step(t, IF threads[t].op = "CachedStat"
               THEN [Returned(threads[t], 0, threads[t].serr, <<>>, threads[t].reqs)
                        EXCEPT !.stat = threads[t].stat]
               ELSE [threads[t] EXCEPT !.pc = AfterCs(threads[t])])
    /\ UNCHANGED <<remote, index, still>>

\* Seek after its CachedStat: on an error it returns, otherwise it takes
\* indexLocker, assigns the cursor, checks it and releases the lock.  ReadAt
\* goes on to Read when its Seek succeeded.
SeekAssign(t) ==
    /\ threads[t].pc = "sk_lock"
    /\ threads[t].serr # "nil" \/ Free("indexLocker")
    /\ LET o == SeekAfterStat(Cs(threads[t]), index, remote,
                              threads[t].off, threads[t].whence)
       IN  /\ index' = o.index
           /\ Step(t, IF threads[t].op = "ReadAt" /\ o.err = "nil"
                      THEN [threads[t] EXCEPT !.pc = "rd_lock", !.phase = "read",
                                              !.stat = NilInfo, !.serr = "nil"]
                      ELSE Returned(threads[t], o.n, o.err, <<>>, threads[t].reqs))
    /\ UNCHANGED <<remote, cachedState, locks, still>>

\* Read after its CachedStat, indexLocker held: the end-of-file test, and
\* the ranged GET reaches the server
ReadSend(t) ==
    /\ threads[t].pc = "rd_range"
    /\ LET o == ReadAfterStat(Cs(threads[t]), index, remote, threads[t].L, "ok", 0)
       IN  Step(t, [threads[t] EXCEPT
                      !.pc = "rd_done",
                      !.pend = [index |-> o.index, ok |-> o.err = "nil"],
                      !.n = o.n, !.err = o.err, !.out = o.out, !.reqs = o.reqs])
    /\ UNCHANGED <<remote, index, cachedState, locks, still>>

\* Read has its answer: it assigns the cursor, copies the body, returns and
\* releases indexLocker
ReadDone(t) ==
    /\ threads[t].pc = "rd_done"
    /\ index' = IF threads[t].pend.ok THEN threads[t].pend.index ELSE index
    /\ locks' = Unlock("indexLocker")
    /\ Step(t, Returned(threads[t], threads[t].n, threads[t].err, threads[t].out,
                        threads[t].reqs))
    /\ UNCHANGED <<remote, cachedState, still>>

\* WriteAt after its CachedStat, indexLocker held: the PATCH, or the PUT of
\* ReadFrom, reaches the server
WriteSend(t) ==
    /\ threads[t].pc = "wa_send"
    /\ LET o == WriteAtAfterStat(Cs(threads[t]), index, remote,
                                 threads[t].buf, threads[t].offset, "ok")
       IN  /\ remote' = o.remote
           /\ Step(t, [threads[t] EXCEPT
                          !.pc = "wa_done",
                          !.pend = [index |-> o.index, ok |-> o.err = "nil"],
                          !.n = o.n, !.err = o.err, !.reqs = o.reqs])
    /\ UNCHANGED <<index, cachedState, locks, still>>

\* WriteAt has its answer: it assigns the cursor, clears the cached state
\* after a success, returns and releases indexLocker
WriteDone(t) ==
    /\ threads[t].pc = "wa_done"
    /\ index' = threads[t].pend.index
    /\ cachedState' = IF threads[t].pend.ok THEN NilInfo ELSE cachedState
    /\ locks' = Unlock("indexLocker")
    /\ Step(t, Returned(threads[t], threads[t].n, threads[t].err, <<>>,
                        threads[t].reqs))
    /\ UNCHANGED <<remote, still>>

\* Stat called directly: its HEAD reaches the server, no lock taken
StatHead(t) ==
    /\ threads[t].pc = "st_head"
    /\ Step(t, [threads[t] EXCEPT
                   !.stat = StatPath(remote, "ok").info,
                   !.serr = StatPath(remote, "ok").err,
                   !.reqs = <<HeadReq>>,
                   !.pc = "st_store"])
    /\ UNCHANGED <<remote, index, cachedState, locks, still>>

\* Stat has its answer and assigns d.cachedState, no lock taken
StatStore(t) ==
    /\ threads[t].pc = "st_store"
    /\ cachedState' = IF threads[t].serr = "nil" THEN threads[t].stat ELSE cachedState
    /\ Step(t, [Returned(threads[t], 0, threads[t].serr, <<>>, threads[t].reqs)
                    EXCEPT !.stat = threads[t].stat])
    /\ UNCHANGED <<remote, index, locks, still>>

\* ReadFrom called directly: its PUT reaches the server, no lock taken
PutSend(t) ==
    /\ threads[t].pc = "rf_send"
    /\ LET o == ReadFrom(index, cachedState, remote, threads[t].buf, "ok")
       IN  /\ remote' = o.remote
           /\ Step(t, [threads[t] EXCEPT
                          !.pc = "rf_done",
                          !.pend = [index |-> index, ok |-> o.err = "nil"],
                          !.n = o.n, !.err = o.err, !.reqs = o.reqs])
    /\ UNCHANGED <<index, cachedState, locks, still>>

\* ReadFrom has its answer and clears d.cachedState after a success
PutDone(t) ==
    /\ threads[t].pc = "rf_done"
    /\ cachedState' = IF threads[t].pend.ok THEN NilInfo ELSE cachedState
    /\ Step(t, Returned(threads[t], threads[t].n, threads[t].err, <<>>,
                        threads[t].reqs))
    /\ UNCHANGED <<remote, index, locks, still>>

ThreadNext ==
    \E t \in Threads :
        \/ Start(t)
        \/ LoadIndex(t)
        \/ LockIndex(t)
        \/ EnterCachedStat(t)
        \/ StoreStat(t)
        \/ SeekAssign(t)
        \/ ReadSend(t)
        \/ ReadDone(t)
        \/ WriteSend(t)
        \/ WriteDone(t)
        \/ StatHead(t)
        \/ StatStore(t)
        \/ PutSend(t)
        \/ PutDone(t)

ThreadSpec == ThreadInit /\ [][ThreadNext]_vars

\* the steps of a call already made: a goroutine that can run is run, and a
\* sync.Mutex that is free is given to a goroutine waiting for it
Proceed(t) ==
    \/ LoadIndex(t)
    \/ LockIndex(t)
    \/ EnterCachedStat(t)
    \/ StoreStat(t)
    \/ SeekAssign(t)
    \/ ReadSend(t)
    \/ ReadDone(t)
    \/ WriteSend(t)
    \/ WriteDone(t)
    \/ StatHead(t)
    \/ StatStore(t)
    \/ PutSend(t)
    \/ PutDone(t)

\* the calls with buffers of the greatest length: which locks a call takes,
\* and when, does not depend on the length
FairCalls == {c \in ThreadCalls : c.L \in {0, MaxBuf}}

FairStart(t) == StartOf(t, FairCalls)

ThreadFairNext == \E t \in Threads : FairStart(t) \/ Proceed(t)

ThreadFairSpec ==
    ThreadInit /\ [][ThreadFairNext]_vars /\ \A t \in Threads : WF_vars(Proceed(t))

\* ---------------------------------------------------------------- properties
Errors ==
    {"nil", "EOF", "ErrNotExist", "ErrInvalid", "ErrExist", "transport", "status",
     "parse", "bodyerr", "negative offset", "offset out of range"}

RangeErrors == {"negative offset", "offset out of range"}

WriteOps == {"WriteAt", "Write", "ReadFrom"}

TypeOK ==
    /\ remote.kind \in {"none", "file", "dir"}
    /\ Len(remote.data) <= MaxSize
    /\ remote.kind # "file" => remote.data = <<>>
    /\ index \in (0 - 1)..(MaxSize + 1)
    /\ cachedState.present \in BOOLEAN
    /\ cachedState.size \in 0..MaxSize
    /\ last.err \in Errors
    /\ hist.run \in {"fresh", "read", "write", "none"}
    /\ hist.heads \in 0..MaxHeads

\* C1. Sequential read completeness: on a fresh handle of a file of size
\* S >= 1, Reads with one buffer length B >= 1, every request answered, have
\* returned exactly the bytes of the file, in order, by the time one of them
\* signals end-of-data.
C1_SequentialReadComplete ==
    (hist.run = "read" /\ Len(remote.data) >= 1 /\ last.err = "EOF")
        => hist.acc = remote.data

\* C2. Random-access read: a Read of any buffer length that follows a
\* successful Seek(o, SeekStart) with 0 <= o < size on a file, every request
\* answered, returns no error, not even end-of-data, at least one byte, and
\* the bytes file[o .. o+n).
C2_SeekThenRead ==
    (/\ last.op = "Read" /\ last.afterSeek /\ last.answered
     /\ last.preRemote.kind = "file"
     /\ last.preIndex >= 0 /\ last.preIndex < Len(last.preRemote.data))
        => (/\ last.err = "nil"
            /\ last.n >= 1
            /\ last.preIndex + last.n <= Len(last.preRemote.data)
            /\ last.out = SubRange(last.preRemote.data, last.preIndex,
                                   last.preIndex + last.n - 1))

\* C3. Overwrite in place: a successful WriteAt(buf, offset) with
\* 0 <= offset < N on a file of size N, whatever the cursor is, declares the
\* range [offset, offset+L-1] to the server, and the file afterwards is the
\* file before with exactly bytes [offset, offset+L) replaced by buf.
C3_OverwriteInPlace ==
    (/\ last.op = "WriteAt" /\ last.err = "nil"
     /\ last.preRemote.kind = "file" /\ last.off < Len(last.preRemote.data))
        => (/\ last.reqs[Len(last.reqs)]
                  = PatchRangeReq(last.off, last.off + Len(last.buf) - 1, last.buf)
            /\ remote = FileResource(Overwrite(last.preRemote.data, last.off, last.buf)))

\* C4. Partial-write composition: on a fresh handle of a path that does not
\* exist, after K >= 1 Writes of non-empty chunks, every request answered,
\* each Write returned the length of its chunk and no error, the remote file
\* is the concatenation of the chunks, and the cursor is the total length.
C4_WriteComposition ==
    hist.run = "write"
        => (/\ last.op = "Write" => (last.err = "nil" /\ last.n = Len(last.buf))
            /\ remote = FileResource(hist.acc)
            /\ index = Len(hist.acc))

\* a second chunk has been written in such a run
C4_Witness ==
    /\ hist.run = "write"
    /\ last.op = "Write"
    /\ Len(hist.acc) > Len(last.buf)
    /\ remote = FileResource(hist.acc)

\* C5. Cursor range invariant: after any sequence of calls on the handle,
\* succeeded or failed, the cursor is at least 0 and at most the last known
\* size of the resource.
C5_CursorInRange ==
    /\ index >= 0
    /\ cachedState.present => index <= cachedState.size

\* C6. A Seek that fails with a range error leaves the cursor at its
\* pre-call value.
C6_FailedSeekKeepsCursor ==
    (last.op = "Seek" /\ last.err \in RangeErrors) => index = last.preIndex

\* C7. A Read that returns an error other than end-of-data leaves the cursor
\* at its pre-call value.
C7_FailedReadKeepsCursor ==
    (last.op = "Read" /\ last.err \notin {"nil", "EOF"}) => index = last.preIndex

\* C8. A WriteAt that returns an error leaves the cursor at its pre-call
\* value.
C8_FailedWriteAtKeepsCursor ==
    (last.op = "WriteAt" /\ last.err # "nil") => index = last.preIndex

\* C9. Cache invalidation on write: when WriteAt, Write or ReadFrom returns
\* success the cached metadata is empty; a CachedStat, Read or Seek that
\* starts with the cache empty issues a metadata request first; and cached
\* metadata of a file always carries the file's current size.
C9_WriteInvalidatesCache ==
    /\ (last.op \in WriteOps /\ last.err = "nil") => cachedState = NilInfo
    /\ (last.op \in {"CachedStat", "Read", "Seek"} /\ ~last.preCache.present)
           => (Len(last.reqs) >= 1 /\ last.reqs[1] = HeadReq)
    /\ (cachedState.present /\ remote.kind = "file")
           => (cachedState.size = Len(remote.data) /\ ~cachedState.isDir)

\* a write succeeded on a handle whose cache was populated
C9_Witness ==
    /\ last.op \in WriteOps
    /\ last.err = "nil"
    /\ last.preCache.present
    /\ cachedState = NilInfo

\* C10. CachedStat returns the cached metadata without a request when the
\* cache is non-empty, and otherwise issues exactly one metadata request and
\* stores its result; an unbroken sequence of successful Read, Seek and
\* CachedStat calls issues at most one metadata request.
C10_CachedStatOnce ==
    /\ (last.op = "CachedStat" /\ last.preCache.present)
           => (/\ last.reqs = <<>>
               /\ last.err = "nil"
               /\ last.info = last.preCache
               /\ cachedState = last.preCache)
    /\ (last.op = "CachedStat" /\ ~last.preCache.present)
           => (/\ last.reqs = <<HeadReq>>
               /\ last.err = "nil" => (last.info.present /\ cachedState = last.info)
               /\ last.err # "nil" => cachedState = NilInfo)
    /\ hist.heads <= 1

\* a call of such a sequence was served from the cache that an earlier call
\* of the sequence filled
C10_Witness ==
    /\ last.op \in {"Read", "Seek", "CachedStat"}
    /\ last.err = "nil"
    /\ hist.heads = 1
    /\ CountHeads(last.reqs) = 0

\* the call obtained metadata: from the cache, or from an answered request
\* on a resource that exists
KnewSize == last.preCache.present \/ (last.answered /\ last.preRemote.kind # "none")

\* C11. Seek result: with known size S and cursor c, Seek(offset, mode) aims
\* at t = offset, c + offset or S + offset; when 0 <= t <= S it succeeds, the
\* cursor is t and t is returned (t = S included); when t < 0 or t > S it
\* fails with a range error.  The remote resource is never changed.
C11_SeekResult ==
    (last.op = "Seek" /\ KnewSize)
        => LET S == cachedState.size
               t == IF last.whence = 0 THEN last.off
                    ELSE IF last.whence = 1 THEN last.preIndex + last.off
                    ELSE S + last.off
           IN  /\ cachedState.present
               /\ (0 <= t /\ t <= S) => (last.err = "nil" /\ index = t /\ last.n = t)
               /\ t < 0 => last.err = "negative offset"
               /\ t > S => last.err = "offset out of range"
               /\ remote = last.preRemote

\* a Seek relative to the end reached the end of a non-empty file
C11_Witness ==
    /\ last.op = "Seek"
    /\ last.whence = SeekEnd
    /\ last.err = "nil"
    /\ remote.kind = "file"
    /\ index = Len(remote.data)
    /\ index >= 1

\* the ranged retrieval requests among reqs
RangedGets(reqs) == {i \in 1..Len(reqs) : reqs[i].method = "GET" /\ reqs[i].rng = "bytes"}

\* C12. End-of-data boundary: when the cursor equals the last known size of
\* a file (any size >= 0), Read with a non-empty buffer returns zero bytes and
\* the end-of-data signal, issues no ranged retrieval request, and leaves the
\* cursor unchanged.
C12_ReadAtEnd ==
    (/\ last.op = "Read" /\ KnewSize /\ last.L >= 1
     /\ cachedState.present /\ ~cachedState.isDir
     /\ last.preIndex = cachedState.size)
        => (/\ last.n = 0
            /\ last.out = <<>>
            /\ last.err = "EOF"
            /\ RangedGets(last.reqs) = {}
            /\ index = last.preIndex)

\* a Read with room for two bytes was made at the end of a non-empty file
C12_Witness ==
    /\ last.op = "Read"
    /\ last.L >= 2
    /\ last.err = "EOF"
    /\ remote.kind = "file"
    /\ cachedState.present
    /\ cachedState.size >= 1
    /\ last.preIndex = cachedState.size

\* C13. Read on a handle whose resource is a directory fails with the
\* invalid-operation error: it does not return end-of-data and returns no
\* listing bytes as content.
C13_ReadDirectoryInvalid ==
    (last.op = "Read" /\ last.answered /\ last.preRemote.kind = "dir")
        => (last.err = "ErrInvalid" /\ last.n = 0 /\ last.out = <<>>)

\* C14. Stat never fails because of the modification-time headers: when
\* the answer is 2xx and neither Last-Modified nor Date is there or parses,
\* Stat succeeds, returns metadata with a zero modification time, and
\* refreshes the cache.
C14_StatToleratesDates ==
    (/\ last.op = "Stat" /\ last.preRemote.kind # "none"
     /\ last.plan.stat \in {"nodate", "baddate"})
        => (/\ last.err = "nil"
            /\ last.info.present
            /\ last.info.mtime = "zero"
            /\ cachedState = last.info)

\* the call's metadata request, or its last request, was answered 500
Got500 ==
    \/ last.plan.stat = "500" /\ CountHeads(last.reqs) >= 1
    \/ /\ last.plan.data = "500"
       /\ Len(last.reqs) >= 1
       /\ last.reqs[Len(last.reqs)].method # "HEAD"

\* the call's first request was answered 404
Got404 == Len(last.reqs) >= 1 /\ last.answered /\ last.preRemote.kind = "none"

\* C15. Error taxonomy on the read path: for Read, Stat, CachedStat, WriteTo
\* and ReadDir, a 404 answer yields the does-not-exist error, and any other
\* non-2xx answer yields a transport-failure error carrying the status text,
\* which is not the invalid-operation error of resource-kind violations.
C15_ReadPathErrors ==
    last.op \in {"Read", "Stat", "CachedStat", "WriteTo", "ReadDir"}
        => (/\ Got404 => last.err = "ErrNotExist"
            /\ Got500 => last.err = "status")

\* C16. ReadFile(path) on the facade returns the complete content of the
\* remote file: for a file holding bytes D it returns D and no error.
C16_ReadFileComplete ==
    (last.op = "ReadFile" /\ last.answered /\ last.preRemote.kind = "file")
        => (last.err = "nil" /\ last.out = last.preRemote.data)

\* C17. Round trip: after ReadFrom(source) succeeded with source bytes D,
\* WriteTo on that handle, or on a new handle for the same path, writes
\* exactly D to the destination and returns len(D).
C17_RoundTrip ==
    (last.op = "WriteTo" /\ last.prePut # <<>> /\ last.answered)
        => (/\ last.err = "nil"
            /\ last.out = last.prePut[1]
            /\ last.n = Len(last.prePut[1]))

\* two bytes were uploaded and then downloaded
C17_Witness ==
    /\ last.op = "WriteTo"
    /\ last.prePut # <<>>
    /\ Len(last.prePut[1]) >= 2
    /\ last.err = "nil"
    /\ last.n = 2

\* C18. ReadFrom(source) on success returns the number of bytes the source
\* delivered, the length of the uploaded body; on a non-2xx answer it returns
\* 0 with a transport error and leaves the cached metadata as it was.
C18_ReadFromCount ==
    last.op = "ReadFrom"
        => (/\ last.answered /\ last.preRemote.kind # "dir"
                  => (/\ last.err = "nil"
                      /\ last.n = Len(last.buf)
                      /\ last.reqs = <<PutReq(last.buf)>>
                      /\ remote = FileResource(last.buf))
            /\ (last.plan.data = "500" \/ (last.answered /\ last.preRemote.kind = "dir"))
                  => (/\ last.n = 0
                      /\ last.err = "status"
                      /\ cachedState = last.preCache
                      /\ remote = last.preRemote))

\* an upload was refused on a handle that held cached metadata
C18_Witness ==
    /\ last.op = "ReadFrom"
    /\ last.err = "status"
    /\ last.preCache.present
    /\ Len(last.buf) >= 1

\* C19. WriteAt on a missing resource: when the metadata lookup reports
\* does-not-exist and offset = 0, WriteAt uploads the buffer in one full-body
\* request, sets the cursor to len(buffer) and returns len(buffer) and no
\* error; when offset # 0 it returns the does-not-exist error, issues neither
\* an upload nor a partial update, and leaves the cursor unchanged.
C19_WriteAtMissing ==
    (/\ last.op = "WriteAt" /\ ~last.preCache.present
     /\ last.preRemote.kind = "none" /\ last.answered)
        => (/\ last.off = 0
                  => (/\ last.reqs = <<HeadReq, PutReq(last.buf)>>
                      /\ last.err = "nil"
                      /\ last.n = Len(last.buf)
                      /\ index = Len(last.buf)
                      /\ remote = FileResource(last.buf))
            /\ last.off # 0
                  => (/\ last.reqs = <<HeadReq>>
                      /\ last.err = "ErrNotExist"
                      /\ last.n = 0
                      /\ index = last.preIndex
                      /\ remote = last.preRemote))

\* a WriteAt at offset 0 created the resource from a two-byte buffer
C19_Witness ==
    /\ last.op = "WriteAt"
    /\ last.preRemote.kind = "none"
    /\ last.off = 0
    /\ last.err = "nil"
    /\ Len(last.buf) = 2
    /\ index = 2

\* C20. Path normalization: for a fixed root, two virtual paths that differ
\* only in redundant slashes (repeated, leading or trailing separators around
\* the same sequence of non-empty segments) resolve to the same resource URL.
C20_PathNormalization ==
    \A alias \in Names :
        Segments(Split(alias, "/")) = Segments(Split(name, "/"))
            => appendToRoot(root, alias) = href

\* C21. Trailing-slash preservation: a directory-shaped virtual path (one
\* ending in '/', the root path "/" included) resolves to a resource URL
\* whose path ends in '/', and no URL ends in a doubled '//'.
C21_TrailingSlash ==
    /\ HasSuffix(name, "/") => HasSuffix(href, "/")
    /\ ~(Len(href) >= 2 /\ href[Len(href)] = "/" /\ href[Len(href) - 1] = "/")

\* the call before the last one was this operation on the last call's
\* path, and it succeeded
Follows(op) == last.prev.op = op /\ last.prev.dst = last.dst /\ last.prev.err = "nil"

\* C22. Mkdir sequence: Mkdir(p) on a path that does not exist succeeds and
\* a following Stat(p) reports a directory of size 0; a second Mkdir(p), which
\* the server answers 405, fails with the already-exists error; any other
\* non-2xx answer to MKCOL, 404 included, yields a generic transport error
\* carrying the status text and never the does-not-exist error.
C22_MkdirSequence ==
    /\ (last.op = "Mkdir" /\ last.fault = "ok" /\ last.preStore[last.dst].kind = "none")
           => (last.err = "nil" /\ last.reqs = <<MkcolReq>>)
    /\ (last.op = "Stat" /\ last.fault = "ok" /\ Follows("Mkdir"))
           => (last.err = "nil" /\ last.info.present /\ last.info.isDir
               /\ last.info.size = 0)
    /\ (last.op = "Mkdir" /\ last.fault = "ok" /\ Follows("Mkdir"))
           => last.err = "ErrExist"
    /\ (last.op = "Mkdir" /\ last.fault \in {"404", "500"})
           => last.err = "status"

\* a directory was made on a fresh path and a second Mkdir was refused
C22_Witness ==
    /\ last.op = "Mkdir"
    /\ Follows("Mkdir")
    /\ last.err = "ErrExist"
    /\ last.preStore[last.dst] = DirResource

\* C23. Copy semantics: after Copy(dst, src) succeeds the resource at dst
\* has the bytes of the resource at src and src is unchanged; a later
\* Remove(src) leaves dst unchanged; Copy issues COPY on src's URL with
\* Destination dst's URL, and Rename(old, new) issues MOVE on old's URL with
\* Destination new's URL.
C23_CopySemantics ==
    /\ (last.op = "Copy" /\ last.err = "nil")
           => (/\ Store(remote, other)[last.dst] = last.preStore[last.src]
               /\ Store(remote, other)[last.src] = last.preStore[last.src])
    /\ (/\ last.op = "Remove" /\ last.prev.op = "Copy" /\ last.prev.err = "nil"
        /\ last.prev.src = last.dst)
           => Store(remote, other)[last.prev.dst] = last.preStore[last.prev.dst]
    /\ last.op = "Copy"
           => last.reqs = <<TransferReq("COPY", appendToRoot(root, last.src),
                                       appendToRoot(root, last.dst))>>
    /\ last.op = "Rename"
           => last.reqs = <<TransferReq("MOVE", appendToRoot(root, last.src),
                                       appendToRoot(root, last.dst))>>

\* a file was copied, its source was removed, and the copy is still there
C23_Witness ==
    /\ last.op = "Remove"
    /\ last.err = "nil"
    /\ last.prev.op = "Copy"
    /\ last.prev.err = "nil"
    /\ last.prev.src = last.dst
    /\ Store(remote, other)[last.prev.dst].kind = "file"
    /\ Len(Store(remote, other)[last.prev.dst].data) >= 1
    /\ Store(remote, other)[last.dst] = NoResource

\* C24. Remove, Copy and Rename map answers to outcomes: any 2xx is success,
\* 404 is the does-not-exist error, any other non-2xx is a generic transport
\* error carrying the status text; after a successful Remove(p), Stat(p)
\* fails with does-not-exist.
C24_FacadeOutcomes ==
    /\ last.op \in {"Remove", "Copy", "Rename"}
           => (/\ (/\ last.fault = "ok" /\ last.preStore[last.src].kind # "none"
                   /\ ~(last.op = "Copy" /\ last.preStore[last.src].kind = "dir"))
                      => last.err = "nil"
               /\ (last.fault = "404"
                       \/ (last.fault = "ok" /\ last.preStore[last.src].kind = "none"))
                      => last.err = "ErrNotExist"
               /\ (last.fault = "500"
                       \/ (/\ last.fault = "ok" /\ last.op = "Copy"
                           /\ last.preStore[last.src].kind = "dir"))
                      => last.err = "status")
    /\ (last.op = "Stat" /\ last.fault = "ok" /\ Follows("Remove"))
           => last.err = "ErrNotExist"

\* a path was removed and the Stat that followed did not find it
C24_Witness ==
    /\ last.op = "Stat"
    /\ Follows("Remove")
    /\ last.err = "ErrNotExist"
    /\ last.reqs = <<HeadReq>>

\* C25. ReadDir(limit) on a handle: when the answer is not classified as a
\* directory it fails with invalid-operation; otherwise it returns the
\* listing's entries in the server's order, exactly the first
\* min(limit, count) when limit > 0 and all of them when limit <= 0, each
\* entry's is-directory flag true exactly when its path_type is "Dir".
C25_ReadDirLimit ==
    (last.op = "ReadDir" /\ last.answered)
        => (/\ last.preRemote.kind = "file"
                  => (last.err = "ErrInvalid" /\ last.out = <<>>)
            /\ last.preRemote.kind = "dir"
                  => (/\ last.err = "nil"
                      /\ Len(last.out) = IF last.L > 0 /\ last.L < Len(DirListing)
                                         THEN last.L ELSE Len(DirListing)
                      /\ \A i \in 1..Len(last.out) :
                            /\ last.out[i].name = i
                            /\ last.out[i].isDir = (DirListing[i] = 1)))

\* a listing was cut short by the limit
C25_Witness ==
    /\ last.op = "ReadDir"
    /\ last.err = "nil"
    /\ last.L = 1
    /\ Len(last.out) = 1
    /\ Len(DirListing) > 1

\* C26. Close is idempotent and has no effect: every Close, at any point in
\* the handle's use, returns success, issues no request, and leaves the
\* cursor and the cached metadata unchanged, so that whatever is called next
\* starts from the state it would have started from without the Close.
C26_CloseNoEffect ==
    last.op = "Close"
        => (/\ last.err = "nil"
            /\ last.reqs = <<>>
            /\ index = last.preIndex
            /\ cachedState = last.preCache
            /\ remote = last.preRemote)

\* Close was called on a handle with a moved cursor and cached metadata
C26_Witness ==
    /\ last.op = "Close"
    /\ last.preIndex >= 1
    /\ last.preCache.present
    /\ index = last.preIndex

\* the handle the last call was not made on
Bystander == IF last.handle = "A" THEN "B" ELSE "A"

\* C27. Handle independence: every Open issues no request and yields a
\* handle with cursor 0 and an empty cache; no operation on one handle
\* changes the cursor or the cached metadata of another handle, even when
\* both address the same path.
C27_HandleIndependence ==
    /\ last.op = "Open"
           => (/\ last.reqs = <<>>
               /\ last.err = "nil"
               /\ Handles[last.handle].index = 0
               /\ Handles[last.handle].cachedState = NilInfo
               /\ remote = last.preRemote)
    /\ last.op # "none" => Handles[Bystander] = last.pre[Bystander]

\* a Write through one handle changed the file while the other handle held
\* a moved cursor and cached metadata; the other handle now holds a stale size
C27_Witness ==
    /\ last.op = "Write"
    /\ last.err = "nil"
    /\ remote # last.preRemote
    /\ Handles[Bystander].index >= 1
    /\ Handles[Bystander].cachedState.present
    /\ Handles[Bystander].cachedState.size # Len(remote.data)

\* every thread has made its call and the call has returned
AllReturned == \A t \in Threads : threads[t].pc = "done"

Calling(ops) == \A t \in Threads : threads[t].op \in ops

\* the offsets of the bytes a call asked the server for
Asked(t) ==
    UNION {threads[t].reqs[i].lo..threads[t].reqs[i].hi : i \in RangedGets(threads[t].reqs)}

RECURSIVE SumReturned(_)
SumReturned(ts) ==
    IF ts = {} THEN 0
    ELSE LET t == CHOOSE u \in ts : TRUE
         IN  threads[t].n + SumReturned(ts \ {t})

C29_WriteAtomic ==
    Calling({"Write"})
        => /\ \A t \in Threads :
                  locks.indexLocker = t => threads[t].offset = index
           /\ (AllReturned /\ \A t \in Threads : threads[t].err = "nil")
                  => index = hist.index + SumReturned(Threads)

\* C30. ReadAt is atomic: with the threads calling only ReadAt, Seek and
\* Read on a handle of an unchanging file, a ReadAt(buf, off) with
\* 0 <= off < size that returns bytes asked the server for the range that
\* starts at off and returns the bytes of the file from offset off.
C30_ReadAtAtomic ==
    \A t \in Threads :
        (/\ hist.remote.kind = "file"
         /\ \A u \in Threads : threads[u].op \in {"none", "ReadAt", "Seek", "Read"}
         /\ threads[t].op = "ReadAt"
         /\ threads[t].pc = "done"
         /\ threads[t].off < Len(hist.remote.data)
         /\ threads[t].n >= 1)
            => /\ \A i \in RangedGets(threads[t].reqs) :
                      threads[t].reqs[i].lo = threads[t].off
               /\ threads[t].out = SubRange(hist.remote.data, threads[t].off,
                                            threads[t].off + threads[t].n - 1)

\* one thread wrote with WriteAt or ReadFrom and succeeded, the other called
\* Seek, Stat or CachedStat, and both calls have returned
WroteBesideStat ==
    /\ AllReturned
    /\ \E w, r \in Threads :
           /\ threads[w].op \in {"WriteAt", "ReadFrom"}
           /\ threads[w].err = "nil"
           /\ threads[r].op \in {"Seek", "Stat", "CachedStat"}

\* C31. Cache freshness under concurrency: with a Seek, Stat or CachedStat
\* running beside a WriteAt or ReadFrom on the same handle, once the write
\* has returned success and all calls have finished, the cache is empty or
\* holds the metadata of the resource as the write left it.
C31_CacheFresh ==
    (WroteBesideStat /\ cachedState.present)
        => cachedState = StatPath(remote, "ok").info

\* the locks a thread holds
Held(t) == {l \in DOMAIN locks : locks[l] = t}

\* a thread about to take the cursor lock
WantsIndex(t) == threads[t].pc \in {"rd_lock", "wa_lock", "sk_lock"}

\* the cursor lock is never taken by a thread that holds the metadata lock,
\* and a thread that is in no call holds no lock
LockOrder ==
    \A t \in Threads :
        /\ WantsIndex(t) => Held(t) = {}
        /\ threads[t].pc = "cs_enter" => "cachedStateLocker" \notin Held(t)
        /\ threads[t].pc \in {"idle", "done"} => Held(t) = {}

\* C32. Deadlock freedom: with threads calling Read, ReadAt, Write,
\* WriteAt, Seek, Stat and CachedStat on one handle and every request
\* answered, every call made returns; the metadata lock is only taken by a
\* thread holding the cursor lock or no lock, never the reverse, and a
\* thread holds no lock once its call has returned.
C32_DeadlockFree ==
    /\ []LockOrder
    /\ \A t \in Threads : (threads[t].pc # "idle") ~> (threads[t].pc = "done")

\* one thread waits for the cursor lock while the other holds both locks
C32_Witness ==
    \E t, u \in Threads :
        /\ threads[t].pc \in {"rd_lock", "wa_lock"}
        /\ Held(u) = {"indexLocker", "cachedStateLocker"}

\* the last call was a WriteAt on a file, at or past its end, that succeeded
Appended ==
    /\ last.op = "WriteAt"
    /\ last.err = "nil"
    /\ last.preRemote.kind = "file"
    /\ last.off >= Len(last.preRemote.data)
    /\ \E i \in 1..Len(last.reqs) : last.reqs[i] = PatchAppendReq(last.buf)

\* C33. Append keeps the cursor at end-of-file: after a successful
\* WriteAt(buf, offset) with offset >= the size S, the resource has size
\* S + len(buf) with buf stored from S on, and the cursor is that new size,
\* also when offset > S.
C33_AppendCursor ==
    Appended
        => /\ remote = FileResource(last.preRemote.data \o last.buf)
           /\ index = Len(remote.data)

\* what C33 says of the resource alone, and of the cursor when offset = S
C33_AppendAtEnd ==
    Appended
        => /\ remote = FileResource(last.preRemote.data \o last.buf)
           /\ last.off = Len(last.preRemote.data) => index = Len(remote.data)

\* C34. WriteTo and ReadFrom are independent of the cursor: WriteTo asks
\* for the whole resource with no range whatever the cursor is and, when
\* answered for a file, streams all of it from byte 0; neither WriteTo nor a
\* directly called ReadFrom changes the cursor.
C34_CursorIndependent ==
    /\ last.op = "WriteTo"
           => (/\ index = last.preIndex
               /\ last.reqs = <<WholeGetReq>>
               /\ (last.answered /\ last.preRemote.kind = "file")
                      => (/\ last.err = "nil"
                          /\ last.out = last.preRemote.data
                          /\ last.n = Len(last.preRemote.data)))
    /\ last.op = "ReadFrom" => index = last.preIndex

\* the cursor stood at the end of a two-byte file and WriteTo streamed both bytes
C34_Witness ==
    /\ last.op = "WriteTo"
    /\ last.preRemote.kind = "file"
    /\ last.preIndex = Len(last.preRemote.data)
    /\ last.preIndex >= 2
    /\ last.err = "nil"
    /\ last.n = last.preIndex
    /\ index = last.preIndex

====
